---- MODULE Spec2Model ----
(***************************************************************************)
(* Model of src/mandelbrot-explorer.tsx: the MandelbrotExplorer component. *)
(*                                                                         *)
(* State: the useState cells of the component (centerX, centerY, zoom,     *)
(* maxIterations, zoomHistory, isMiniMapVisible, currentPalette,           *)
(* isSelectingArea, selectionStart, selectionEnd), what is painted on the  *)
(* two canvases, and the position of the pointer gesture on the canvas.    *)
(*                                                                         *)
(* JavaScript numbers are modelled as exact rationals <<n, d>> (d > 0,     *)
(* lowest terms) extended with Infinity <<1, 0>>, the value of a division  *)
(* of a positive number by zero.                                           *)
(***************************************************************************)
EXTENDS Integers, Naturals, Sequences, FiniteSets, TLC

\* ------------------------------------------------------------------ bounds
\* zoom-ins kept on the history stack (zoom doubles without bound in the code)
MaxDepth == 3
\* largest iteration budget explored by the escape-loop specification
MaxIterBound == 4
\* colour ratios are the fractions k/n of [0, 1] with n up to MaxRatioDen
MaxRatioDen == 8

\* ------------------------------------------------------------- arithmetic
Abs(n) == IF n < 0 THEN -n ELSE n

RECURSIVE GCD(_, _)
GCD(a, b) == IF b = 0 THEN a ELSE GCD(b, a % b)

\* n/d in lowest terms with a positive denominator; x/0 for x > 0 is Infinity
Norm(n, d) ==
  IF d = 0 THEN <<1, 0>>
  ELSE LET g == GCD(Abs(n), Abs(d))
           s == IF d < 0 THEN -1 ELSE 1
       IN <<s * (n \div g), s * (d \div g)>>

Num(n) == <<n, 1>>
Infinity == <<1, 0>>
IsFinite(a) == a[2] # 0

\* a + b, a - b, a * b, a / b on finite operands (a / 0 = Infinity for a > 0)
RAdd(a, b) == Norm(a[1] * b[2] + b[1] * a[2], a[2] * b[2])
RSub(a, b) == Norm(a[1] * b[2] - b[1] * a[2], a[2] * b[2])
RMul(a, b) ==
  IF ~IsFinite(a) \/ ~IsFinite(b) THEN Infinity
  ELSE Norm(a[1] * b[1], a[2] * b[2])
RDiv(a, b) ==
  IF ~IsFinite(a) THEN Infinity
  ELSE IF ~IsFinite(b) THEN Num(0)
  ELSE Norm(a[1] * b[2], a[2] * b[1])
RLess(a, b) ==
  IF ~IsFinite(a) THEN FALSE
  ELSE IF ~IsFinite(b) THEN TRUE
  ELSE a[1] * b[2] < b[1] * a[2]
\* Math.min, Math.abs, Math.floor, Math.round (halves round up)
RMin(a, b) == IF RLess(b, a) THEN b ELSE a
RMax(a, b) == IF RLess(a, b) THEN b ELSE a
RAbs(a) == <<Abs(a[1]), a[2]>>
RFloor(a) == a[1] \div a[2]
RRound(a) == (2 * a[1] + a[2]) \div (2 * a[2])

RECURSIVE Pow2(_)
Pow2(n) == IF n = 0 THEN 1 ELSE 2 * Pow2(n - 1)

\* Math.log2: the integer part by halving, then ten bits of the fraction by
\* the square-and-halve method on a mantissa in [1, 2) held in fixed point
\* with 14 fractional bits (16384 = 2^14). The result is log2(z) to within
\* 2^-9, as a rational over 1024.
RECURSIVE FloorLog2(_)
FloorLog2(z) == IF z < 2 THEN 0 ELSE 1 + FloorLog2(z \div 2)

RECURSIVE Log2Frac(_, _)
Log2Frac(m, k) ==
  IF k = 0 THEN 0
  ELSE LET sq == (m * m) \div 16384
       IN IF sq >= 32768
          THEN Pow2(k - 1) + Log2Frac(sq \div 2, k - 1)
          ELSE Log2Frac(sq, k - 1)

Log2(z) ==
  LET e == FloorLog2(z)
      m == (z * 16384) \div Pow2(e)
  IN Norm(e * 1024 + Log2Frac(m, 10), 1024)

\* --------------------------------------------------------------- constants
\* canvas.width / canvas.height, set from the window size by the render effect
CanvasWidth == 800
CanvasHeight == 600
MiniMapSize == 150
DefaultZoom == 200
DefaultMaxIterations == 100
MaxIterationsCap == 1000
MiniMapScale == 50
MiniMapMaxIter == 50

\* an optional value: <<>> is null, <<v>> is v
None == <<>>
Some(v) == <<v>>

Pt(px, py) == [x |-> px, y |-> py]

\* event positions (clientX - rect.left, clientY - rect.top) delivered to the
\* canvas during a capture gesture: two opposite corners and the middle of
\* the bottom edge, which span the whole canvas, its left half, a selection
\* of zero height and one of zero size
Points ==
  { Pt(0, 0), Pt(CanvasWidth, CanvasHeight),
    Pt(CanvasWidth \div 2, CanvasHeight) }

\* positions of the clicks that zoom
ClickPoints == { Pt(CanvasWidth \div 2, CanvasHeight \div 2), Pt(0, 0) }

\* palettes offered to handlePaletteChange by the navigation specification
MenuPalettes == { "initial", "cool" }

VARIABLES
  centerX, centerY,      \* useState(0), useState(0): rationals
  zoom,                  \* useState(200)
  maxIterations,         \* useState(100)
  zoomHistory,           \* useState([]): sequence of {centerX, centerY, zoom}
  isMiniMapVisible,      \* useState(false)
  currentPalette,        \* useState("initial")
  isSelectingArea,       \* useState(false)
  selectionStart,        \* useState(null): None or Some(point)
  selectionEnd,          \* useState(null): None or Some(point)
  canvas,                \* what the main canvas shows: image and overlay rect
  miniMap,               \* what the mini-map canvas shows
  effectDeps,            \* dependencies of drawMandelbrot at the last effect run
  pointer,               \* mouse gesture on the canvas: "idle", "down", "up"
  last,                  \* the last handler that ran, the navigation state it
                         \* started from, the position of its click and the
                         \* outcome of its capture
  esc,                   \* the escape loop of one pixel of a render
  shade,                 \* the last call of colorPalette: ratio, indices, result
  gesture                \* which selection endpoints were set since the latest
                         \* of entering selection mode and the last mouse-up

navVars == <<centerX, centerY, zoom, maxIterations, zoomHistory>>
selVars == <<isSelectingArea, selectionStart, selectionEnd>>
uiVars == <<isMiniMapVisible, currentPalette>>
drawVars == <<canvas, miniMap, effectDeps>>
vars == <<centerX, centerY, zoom, maxIterations, zoomHistory, isMiniMapVisible,
          currentPalette, isSelectingArea, selectionStart, selectionEnd,
          canvas, miniMap, effectDeps, pointer, last, esc, shade, gesture>>

\* the navigation state as one value
NavState ==
  [centerX |-> centerX, centerY |-> centerY, zoom |-> zoom,
   maxIterations |-> maxIterations, zoomHistory |-> zoomHistory]

Viewport == <<centerX, centerY, zoom, maxIterations>>

\* ---------------------------------------------------------------- colours
\* colorPalettes
ColorPalettes ==
  [ initial |->
      << <<0, 7, 100>>, <<32, 107, 203>>, <<237, 255, 255>>,
        <<255, 170, 0>>, <<0, 2, 0>>, <<237, 255, 255>>,
        <<255, 170, 0>>, <<0, 2, 0>> >>,
    original |->
      << <<66, 30, 15>>, <<25, 7, 26>>, <<9, 1, 47>>, <<4, 4, 73>>,
        <<0, 7, 100>>, <<12, 44, 138>>, <<24, 82, 177>>,
        <<57, 125, 209>>, <<134, 181, 229>>, <<211, 236, 248>>,
        <<241, 233, 191>>, <<248, 201, 95>>, <<255, 170, 0>>,
        <<204, 128, 0>>, <<153, 87, 0>>, <<106, 52, 3>> >>,
    cool |->
      << <<0, 0, 0>>, <<0, 7, 100>>, <<32, 107, 203>>,
        <<237, 255, 255>>, <<255, 170, 0>>, <<0, 2, 0>> >>,
    warm |->
      << <<0, 0, 0>>, <<102, 2, 4>>, <<255, 0, 0>>, <<255, 200, 0>>,
        <<255, 255, 255>> >>,
    grayscale |->
      << <<0, 0, 0>>, <<32, 32, 32>>, <<64, 64, 64>>, <<128, 128, 128>>,
        <<192, 192, 192>>, <<255, 255, 255>> >>,
    psychedelic |->
      << <<0, 0, 0>>, <<255, 0, 0>>, <<255, 255, 0>>, <<0, 255, 0>>,
        <<0, 255, 255>>, <<0, 0, 255>>, <<255, 0, 255>> >>,
    ocean |->
      << <<0, 0, 32>>, <<0, 128, 255>>, <<0, 255, 255>>,
        <<255, 255, 255>> >>,
    forest |->
      << <<0, 32, 0>>, <<0, 64, 0>>, <<0, 128, 0>>, <<128, 255, 0>>,
        <<255, 255, 0>> >> ]

PaletteNames == DOMAIN ColorPalettes
Black == <<0, 0, 0>>

\* colorPalette(t): piecewise-linear interpolation over the current palette.
\* Indices are the code's, counted from 0; a read past the end of the array
\* gives undefined, and taking a channel of undefined throws, which is the
\* result <<>> here.
PaletteEntry(palette, k) ==
  IF k >= 0 /\ k < Len(palette) THEN palette[k + 1] ELSE <<>>

\* line 103: const i = Math.floor(t * (palette.length - 1))
ColorIndex1(t) ==
  RFloor(RMul(t, Num(Len(ColorPalettes[currentPalette]) - 1)))

\* the index of color2 without Math.min
ColorIndex2Unclamped(t) ==
  ColorIndex1(t) + 1

\* line 106: Math.min(i + 1, palette.length - 1)
ColorIndex2(t) ==
  IF ColorIndex1(t) + 1 < Len(ColorPalettes[currentPalette]) - 1
    THEN ColorIndex1(t) + 1
    ELSE Len(ColorPalettes[currentPalette]) - 1

ColorPalette(t) ==
  LET palette == ColorPalettes[currentPalette]
      i == ColorIndex1(t)
      f == RSub(RMul(t, Num(Len(palette) - 1)), Num(i))
      color1 == PaletteEntry(palette, i)
      color2 == PaletteEntry(palette, ColorIndex2(t))
      Mix(c) == RRound(RAdd(RMul(Num(color1[c]), RSub(Num(1), f)),
                            RMul(Num(color2[c]), f)))
  IN IF color1 = <<>> \/ color2 = <<>> THEN <<>>
     ELSE <<Mix(1), Mix(2), Mix(3)>>

\* ------------------------------------------------------------- rendering
\* drawMandelbrot, lines 121-126: the pixel-to-plane mapping, at a canvas
\* position given as a rational (a pixel, or the centre of the marker)
PlaneXAt(x, width, height, isMiniMap) ==
  LET aspect == RDiv(Num(width), Num(height))
      scale == IF isMiniMap THEN MiniMapScale ELSE zoom
  IN RAdd(RMul(RDiv(RSub(x, RDiv(Num(width), Num(2))), Num(scale)), aspect),
          IF isMiniMap THEN Norm(-1, 2) ELSE centerX)

PlaneYAt(y, width, height, isMiniMap) ==
  LET scale == IF isMiniMap THEN MiniMapScale ELSE zoom
  IN RAdd(RDiv(RSub(y, RDiv(Num(height), Num(2))), Num(scale)), centerY)

\* drawMandelbrot: the pixel-to-plane mapping of one pixel
PlaneX(x, width, height, isMiniMap) == PlaneXAt(Num(x), width, height, isMiniMap)

PlaneY(y, width, height, isMiniMap) == PlaneYAt(Num(y), width, height, isMiniMap)

\* drawMandelbrot: the marker circle of the mini-map
Marker(width, height) ==
  [viewX |-> RAdd(RMul(RAdd(centerX, Norm(1, 2)), Num(50)), RDiv(Num(width), Num(2))),
   viewY |-> RAdd(RMul(centerY, Num(50)), RDiv(Num(height), Num(2))),
   viewSize |-> RMax(Num(1), RMin(RMul(RDiv(Num(width), Num(zoom)), Num(50)),
                                  RDiv(Num(width), Num(2))))]

\* drawMandelbrot: the image it puts on a canvas, as the parameters every
\* pixel of it is computed from (the per-pixel escape loop is EscapeStep)
DrawMandelbrot(width, height, isMiniMap) ==
  [width |-> width, height |-> height,
   scale |-> IF isMiniMap THEN MiniMapScale ELSE zoom,
   originX |-> PlaneX(width \div 2, width, height, isMiniMap),
   originY |-> PlaneY(height \div 2, width, height, isMiniMap),
   maxIter |-> IF isMiniMap THEN MiniMapMaxIter ELSE maxIterations,
   palette |-> currentPalette,
   marker |-> IF isMiniMap THEN Some(Marker(width, height)) ELSE None]

Deps == <<centerX, centerY, zoom, maxIterations, currentPalette>>

\* the capture outcome of a handler that captured nothing
NoCapture ==
  [kind |-> "none", centerX |-> Num(0), centerY |-> Num(0), zoom |-> Num(0),
   left |-> 0, top |-> 0, width |-> 0, height |-> 0,
   from |-> Pt(0, 0), to |-> Pt(0, 0)]

Ran(op) == [op |-> op, pre |-> NavState, at |-> None, out |-> NoCapture]

\* no call of colorPalette yet
NoShade == [t |-> Num(0), first |-> 0, second |-> 0, color |-> <<>>]

\* neither endpoint set in the current gesture
NoGesture == [start |-> FALSE, end |-> FALSE]

\* the escape loop when no pixel is being computed
EscIdle ==
  [pc |-> "idle", x |-> 0, y |-> 0, zx |-> Num(0), zy |-> Num(0),
   cX |-> Num(0), cY |-> Num(0), iteration |-> 0, maxIter |-> 0,
   passes |-> 0, broke |-> FALSE, color |-> None]

Init ==
  /\ centerX = Num(0)
  /\ centerY = Num(0)
  /\ zoom = DefaultZoom
  /\ maxIterations = DefaultMaxIterations
  /\ zoomHistory = <<>>
  /\ isMiniMapVisible = FALSE
  /\ currentPalette = "initial"
  /\ isSelectingArea = FALSE
  /\ selectionStart = None
  /\ selectionEnd = None
  /\ canvas = [image |-> DrawMandelbrot(CanvasWidth, CanvasHeight, FALSE),
               rect |-> None]
  /\ miniMap = DrawMandelbrot(MiniMapSize, MiniMapSize, TRUE)
  /\ effectDeps = Deps
  /\ pointer = "idle"
  /\ last = Ran("mount")
  /\ esc = EscIdle
  /\ shade = NoShade
  /\ gesture = NoGesture

\* the render effect (useEffect on drawMandelbrot) has to run: React runs it
\* before the next event is handled
RenderPending == effectDeps # Deps

\* useEffect: size the canvases and draw both
RenderEffect ==
  /\ RenderPending
  /\ UNCHANGED <<navVars, selVars, uiVars, pointer, last, esc, shade,
                 gesture>>
  /\ effectDeps' = Deps
  /\ canvas' = [image |-> DrawMandelbrot(CanvasWidth, CanvasHeight, FALSE),
                rect |-> None]
  /\ miniMap' = DrawMandelbrot(MiniMapSize, MiniMapSize, TRUE)

\* handleResize: the same drawing, on a window resize event
HandleResize ==
  /\ ~RenderPending
  /\ pointer = "idle"
  /\ last' = Ran("handleResize")
  /\ UNCHANGED <<navVars, selVars, uiVars, effectDeps, pointer, esc, shade,
                 gesture>>
  /\ canvas' = [image |-> DrawMandelbrot(CanvasWidth, CanvasHeight, FALSE),
                rect |-> None]
  /\ miniMap' = DrawMandelbrot(MiniMapSize, MiniMapSize, TRUE)

\* ------------------------------------------------------------ navigation
\* IterationsFor without the upper clamp
IterationsForUnclamped(z) == RFloor(RMul(Num(100), Log2(z)))

\* IterationsFor taking the logarithm of the scale relative to the default
IterationsForRelative(z) ==
  LET n == RFloor(RMul(Num(100), RSub(Log2(z), Log2(DefaultZoom))))
  IN IF n < MaxIterationsCap THEN n ELSE MaxIterationsCap

\* Math.min(1000, Math.floor(100 * Math.log2(z)))
IterationsFor(z) ==
  LET n == RFloor(RMul(Num(100), Log2(z)))
  IN IF n < MaxIterationsCap THEN n ELSE MaxIterationsCap

\* handleZoom computing the budget from the scale before the doubling
HandleZoomOldScaleBudget(p) ==
  /\ ~RenderPending
  /\ pointer = "up"
  /\ pointer' = "idle"
  /\ last' = [Ran("handleZoom") EXCEPT !.at = Some(p)]
  /\ IF isSelectingArea
     THEN UNCHANGED navVars
     ELSE /\ Len(zoomHistory) < MaxDepth
          /\ zoomHistory' = Append(zoomHistory,
               [centerX |-> centerX, centerY |-> centerY, zoom |-> zoom])
          /\ centerX' = RAdd(centerX,
               RMul(RDiv(RSub(Num(p.x), RDiv(Num(CanvasWidth), Num(2))), Num(zoom)),
                    RDiv(Num(CanvasWidth), Num(CanvasHeight))))
          /\ centerY' = RAdd(centerY,
               RDiv(RSub(Num(p.y), RDiv(Num(CanvasHeight), Num(2))), Num(zoom)))
          /\ zoom' = zoom * 2
          /\ maxIterations' = IterationsFor(zoom)
  /\ UNCHANGED <<selVars, uiVars, drawVars, esc, shade, gesture>>

\* handleZoom without the aspect factor in the new centerX
HandleZoomNoAspect(p) ==
  /\ ~RenderPending
  /\ pointer = "up"
  /\ pointer' = "idle"
  /\ last' = [Ran("handleZoom") EXCEPT !.at = Some(p)]
  /\ IF isSelectingArea
     THEN UNCHANGED navVars
     ELSE /\ Len(zoomHistory) < MaxDepth
          /\ zoomHistory' = Append(zoomHistory,
               [centerX |-> centerX, centerY |-> centerY, zoom |-> zoom])
          /\ centerX' = RAdd(centerX,
               RDiv(RSub(Num(p.x), RDiv(Num(CanvasWidth), Num(2))), Num(zoom)))
          /\ centerY' = RAdd(centerY,
               RDiv(RSub(Num(p.y), RDiv(Num(CanvasHeight), Num(2))), Num(zoom)))
          /\ zoom' = zoom * 2
          /\ maxIterations' = IterationsFor(zoom * 2)
  /\ UNCHANGED <<selVars, uiVars, drawVars, esc, shade, gesture>>

\* handleZoom pushing the doubled scale on the history instead of the current
HandleZoomPushesNew(p) ==
  /\ ~RenderPending
  /\ pointer = "up"
  /\ pointer' = "idle"
  /\ last' = [Ran("handleZoom") EXCEPT !.at = Some(p)]
  /\ IF isSelectingArea
     THEN UNCHANGED navVars
     ELSE /\ Len(zoomHistory) < MaxDepth
          /\ zoomHistory' = Append(zoomHistory,
               [centerX |-> centerX, centerY |-> centerY, zoom |-> zoom * 2])
          /\ centerX' = RAdd(centerX,
               RMul(RDiv(RSub(Num(p.x), RDiv(Num(CanvasWidth), Num(2))), Num(zoom)),
                    RDiv(Num(CanvasWidth), Num(CanvasHeight))))
          /\ centerY' = RAdd(centerY,
               RDiv(RSub(Num(p.y), RDiv(Num(CanvasHeight), Num(2))), Num(zoom)))
          /\ zoom' = zoom * 2
          /\ maxIterations' = IterationsFor(zoom * 2)
  /\ UNCHANGED <<selVars, uiVars, drawVars, esc, shade, gesture>>

\* handleZoom: the canvas's onClick. The browser delivers the click after the
\* mouse-up of a press and release on the canvas.
HandleZoom(p) ==
  /\ ~RenderPending
  /\ pointer = "up"
  /\ pointer' = "idle"
  /\ last' = [Ran("handleZoom") EXCEPT !.at = Some(p)]
  /\ IF isSelectingArea
     THEN UNCHANGED navVars
     ELSE /\ Len(zoomHistory) < MaxDepth
          /\ zoomHistory' = Append(zoomHistory,
               [centerX |-> centerX, centerY |-> centerY, zoom |-> zoom])
          /\ centerX' = RAdd(centerX,
               RMul(RDiv(RSub(Num(p.x), RDiv(Num(CanvasWidth), Num(2))), Num(zoom)),
                    RDiv(Num(CanvasWidth), Num(CanvasHeight))))
          /\ centerY' = RAdd(centerY,
               RDiv(RSub(Num(p.y), RDiv(Num(CanvasHeight), Num(2))), Num(zoom)))
          /\ zoom' = zoom * 2
          /\ maxIterations' = IterationsFor(zoom * 2)
  /\ UNCHANGED <<selVars, uiVars, drawVars, esc, shade, gesture>>

\* handleUndoZoom restoring the top of the history without popping it
HandleUndoZoomNoPop ==
  /\ ~RenderPending
  /\ pointer = "idle"
  /\ last' = Ran("handleUndoZoom")
  /\ IF Len(zoomHistory) > 0
     THEN LET previousState == zoomHistory[Len(zoomHistory)]
          IN /\ centerX' = previousState.centerX
             /\ centerY' = previousState.centerY
             /\ zoom' = previousState.zoom
             /\ maxIterations' = IterationsFor(previousState.zoom)
             /\ UNCHANGED zoomHistory
     ELSE UNCHANGED navVars
  /\ UNCHANGED <<selVars, uiVars, drawVars, pointer, esc, shade, gesture>>

\* handleUndoZoom recomputing the budget even when the history is empty
HandleUndoZoomNoGuard ==
  /\ ~RenderPending
  /\ pointer = "idle"
  /\ last' = Ran("handleUndoZoom")
  /\ IF Len(zoomHistory) > 0
     THEN LET previousState == zoomHistory[Len(zoomHistory)]
          IN /\ centerX' = previousState.centerX
             /\ centerY' = previousState.centerY
             /\ zoom' = previousState.zoom
             /\ maxIterations' = IterationsFor(previousState.zoom)
             /\ zoomHistory' = SubSeq(zoomHistory, 1, Len(zoomHistory) - 1)
     ELSE /\ maxIterations' = IterationsFor(zoom)
          /\ UNCHANGED <<centerX, centerY, zoom, zoomHistory>>
  /\ UNCHANGED <<selVars, uiVars, drawVars, pointer, esc, shade, gesture>>

\* handleUndoZoom: the "Undo Zoom" button
HandleUndoZoom ==
  /\ ~RenderPending
  /\ pointer = "idle"
  /\ last' = Ran("handleUndoZoom")
  /\ IF Len(zoomHistory) > 0
     THEN LET previousState == zoomHistory[Len(zoomHistory)]
          IN /\ centerX' = previousState.centerX
             /\ centerY' = previousState.centerY
             /\ zoom' = previousState.zoom
             /\ maxIterations' = IterationsFor(previousState.zoom)
             /\ zoomHistory' = SubSeq(zoomHistory, 1, Len(zoomHistory) - 1)
     ELSE UNCHANGED navVars
  /\ UNCHANGED <<selVars, uiVars, drawVars, pointer, esc, shade, gesture>>

\* handleResetView forgetting to clear the history
HandleResetViewKeepsHistory ==
  /\ ~RenderPending
  /\ pointer = "idle"
  /\ last' = Ran("handleResetView")
  /\ centerX' = Num(0)
  /\ centerY' = Num(0)
  /\ zoom' = DefaultZoom
  /\ maxIterations' = DefaultMaxIterations
  /\ UNCHANGED zoomHistory
  /\ UNCHANGED <<selVars, uiVars, drawVars, pointer, esc, shade, gesture>>

\* handleResetView: the "Reset View" button
HandleResetView ==
  /\ ~RenderPending
  /\ pointer = "idle"
  /\ last' = Ran("handleResetView")
  /\ centerX' = Num(0)
  /\ centerY' = Num(0)
  /\ zoom' = DefaultZoom
  /\ maxIterations' = DefaultMaxIterations
  /\ zoomHistory' = <<>>
  /\ UNCHANGED <<selVars, uiVars, drawVars, pointer, esc, shade, gesture>>

\* toggleMiniMap: the "Toggle Mini-map" button
ToggleMiniMap ==
  /\ ~RenderPending
  /\ pointer = "idle"
  /\ last' = Ran("toggleMiniMap")
  /\ isMiniMapVisible' = ~isMiniMapVisible
  /\ UNCHANGED <<navVars, selVars, currentPalette, drawVars, pointer, esc,
                 shade, gesture>>

\* handlePaletteChange: the palette menu
HandlePaletteChange(value) ==
  /\ ~RenderPending
  /\ pointer = "idle"
  /\ last' = Ran("handlePaletteChange")
  /\ currentPalette' = value
  /\ UNCHANGED <<navVars, selVars, isMiniMapVisible, drawVars, pointer, esc,
                 shade, gesture>>

\* toggleSelectArea: the "Select Area" / "Cancel Selection" button
ToggleSelectArea ==
  /\ ~RenderPending
  /\ pointer = "idle"
  /\ last' = Ran("toggleSelectArea")
  /\ isSelectingArea' = ~isSelectingArea
  /\ gesture' = NoGesture
  /\ UNCHANGED <<navVars, selectionStart, selectionEnd, uiVars, drawVars,
                 pointer, esc, shade>>

\* --------------------------------------------------------------- capture
\* handleMouseDown: the canvas's onMouseDown
HandleMouseDown(p) ==
  /\ ~RenderPending
  /\ pointer = "idle"
  /\ pointer' = "down"
  /\ last' = Ran("handleMouseDown")
  /\ selectionStart' = IF isSelectingArea THEN Some(p) ELSE selectionStart
  /\ gesture' = IF isSelectingArea THEN [gesture EXCEPT !.start = TRUE]
                ELSE gesture
  /\ UNCHANGED <<navVars, isSelectingArea, selectionEnd, uiVars, drawVars, esc,
                 shade>>

\* handleMouseMove: the canvas's onMouseMove, with the button held or not
HandleMouseMove(p) ==
  /\ ~RenderPending
  /\ pointer \in {"idle", "down"}
  /\ last' = Ran("handleMouseMove")
  /\ IF ~isSelectingArea \/ selectionStart = None
     THEN UNCHANGED <<selectionEnd, canvas, gesture>>
     ELSE /\ selectionEnd' = Some(p)
          /\ gesture' = [gesture EXCEPT !.end = TRUE]
          /\ canvas' =
               [image |-> DrawMandelbrot(CanvasWidth, CanvasHeight, FALSE),
                rect |-> Some(<<selectionStart[1].x, selectionStart[1].y,
                                p.x - selectionStart[1].x,
                                p.y - selectionStart[1].y>>)]
  /\ UNCHANGED <<navVars, isSelectingArea, selectionStart, uiVars, miniMap,
                 effectDeps, pointer, esc, shade>>

\* Capture taking the selection's corner for its centre
CaptureFromCorner ==
  LET s == selectionStart[1]
      e == selectionEnd[1]
      aspect == RDiv(Num(CanvasWidth), Num(CanvasHeight))
      left == IF s.x < e.x THEN s.x ELSE e.x
      top == IF s.y < e.y THEN s.y ELSE e.y
      width == Abs(e.x - s.x)
      height == Abs(e.y - s.y)
      halfW == RDiv(Num(CanvasWidth), Num(2))
      halfH == RDiv(Num(CanvasHeight), Num(2))
  IN [kind |-> IF width = 0 \/ height = 0 THEN "threw" ELSE "downloaded",
      centerX |-> RAdd(centerX,
        RMul(RDiv(RSub(Num(left), halfW), Num(zoom)), aspect)),
      centerY |-> RAdd(centerY, RDiv(RSub(Num(top), halfH), Num(zoom))),
      zoom |-> RMul(Num(zoom), RMin(RDiv(Num(CanvasWidth), Num(width)),
                                    RDiv(Num(CanvasHeight), Num(height)))),
      left |-> left, top |-> top, width |-> width, height |-> height,
      from |-> s, to |-> e]

\* handleMouseUp, lines 315-323: the selection in plane coordinates
Capture ==
  LET s == selectionStart[1]
      e == selectionEnd[1]
      aspect == RDiv(Num(CanvasWidth), Num(CanvasHeight))
      left == IF s.x < e.x THEN s.x ELSE e.x
      top == IF s.y < e.y THEN s.y ELSE e.y
      width == Abs(e.x - s.x)
      height == Abs(e.y - s.y)
      halfW == RDiv(Num(CanvasWidth), Num(2))
      halfH == RDiv(Num(CanvasHeight), Num(2))
  IN [kind |-> IF width = 0 \/ height = 0 THEN "threw" ELSE "downloaded",
      centerX |-> RAdd(centerX,
        RMul(RDiv(RSub(RAdd(Num(left), RDiv(Num(width), Num(2))), halfW),
                  Num(zoom)), aspect)),
      centerY |-> RAdd(centerY,
        RDiv(RSub(RAdd(Num(top), RDiv(Num(height), Num(2))), halfH), Num(zoom))),
      zoom |-> RMul(Num(zoom), RMin(RDiv(Num(CanvasWidth), Num(width)),
                                    RDiv(Num(CanvasHeight), Num(height)))),
      left |-> left, top |-> top, width |-> width, height |-> height,
      from |-> s, to |-> e]

\* handleMouseUp moving the view to the captured selection
HandleMouseUpZooms ==
  /\ ~RenderPending
  /\ pointer = "down"
  /\ pointer' = "up"
  /\ gesture' = NoGesture
  /\ IF ~isSelectingArea \/ selectionStart = None \/ selectionEnd = None
     THEN /\ last' = Ran("handleMouseUp")
          /\ UNCHANGED <<selVars, canvas, centerX, centerY>>
     ELSE /\ last' = [Ran("handleMouseUp") EXCEPT !.out = Capture]
          /\ IF Capture.kind = "threw"
             THEN UNCHANGED <<selVars, canvas, centerX, centerY>>
             ELSE /\ isSelectingArea' = FALSE
                  /\ selectionStart' = None
                  /\ selectionEnd' = None
                  /\ centerX' = Capture.centerX
                  /\ centerY' = Capture.centerY
                  /\ canvas' =
                       [image |-> DrawMandelbrot(CanvasWidth, CanvasHeight, FALSE),
                        rect |-> None]
  /\ UNCHANGED <<zoom, maxIterations, zoomHistory, uiVars, miniMap,
                 effectDeps, esc, shade>>

\* handleMouseUp: the canvas's onMouseUp. ctx.getImageData throws an
\* IndexSizeError when the width or the height it is given is zero, which
\* ends the handler at line 325, before the download and the state reset.
HandleMouseUp ==
  /\ ~RenderPending
  /\ pointer = "down"
  /\ pointer' = "up"
  /\ gesture' = NoGesture
  /\ IF ~isSelectingArea \/ selectionStart = None \/ selectionEnd = None
     THEN /\ last' = Ran("handleMouseUp")
          /\ UNCHANGED <<selVars, canvas>>
     ELSE /\ last' = [Ran("handleMouseUp") EXCEPT !.out = Capture]
          /\ IF Capture.kind = "threw"
             THEN UNCHANGED <<selVars, canvas>>
             ELSE /\ isSelectingArea' = FALSE
                  /\ selectionStart' = None
                  /\ selectionEnd' = None
                  /\ canvas' =
                       [image |-> DrawMandelbrot(CanvasWidth, CanvasHeight, FALSE),
                        rect |-> None]
  /\ UNCHANGED <<navVars, uiVars, miniMap, effectDeps, esc, shade>>

\* ------------------------------------------------- the per-pixel escape loop
\* pixels of the main canvas whose plane points, under the default viewport,
\* have short exact orbits: never escaping, or escaping at the first, second,
\* third or fourth pass of the loop; the last four lie right of the disk of
\* radius 2 (real parts 5/2, 5/2, 13/5 and 21/10), on and off the real axis
SamplePixels ==
  { Pt(400, 300), Pt(250, 300), Pt(400, 500), Pt(100, 300), Pt(700, 300),
    Pt(550, 500), Pt(550, 300), Pt(250, 500), Pt(175, 400), Pt(325, 500),
    Pt(475, 400),
    Pt(775, 300), Pt(775, 500), Pt(790, 100), Pt(715, 0) }

\* drawMandelbrot, lines 125-131: the loop of one pixel of the main canvas
\* starts with the orbit at the pixel's own plane point
EscapeBegin(p) ==
  /\ esc.pc \in {"idle", "done"}
  /\ esc' = [pc |-> "loop", x |-> p.x, y |-> p.y,
             zx |-> PlaneX(p.x, CanvasWidth, CanvasHeight, FALSE),
             zy |-> PlaneY(p.y, CanvasWidth, CanvasHeight, FALSE),
             cX |-> PlaneX(p.x, CanvasWidth, CanvasHeight, FALSE),
             cY |-> PlaneY(p.y, CanvasWidth, CanvasHeight, FALSE),
             iteration |-> 0, maxIter |-> maxIterations,
             passes |-> 0, broke |-> FALSE, color |-> None]
  /\ UNCHANGED <<navVars, selVars, uiVars, drawVars, pointer, last, shade,
                 gesture>>

\* the loop counting the pass that breaks: iteration++ before the escape test
EscapeStepCountsBreak ==
  /\ esc.pc = "loop"
  /\ esc.iteration < esc.maxIter
  /\ LET xtemp == RAdd(RSub(RMul(esc.cX, esc.cX), RMul(esc.cY, esc.cY)), esc.zx)
         newY == RAdd(RMul(Num(2), RMul(esc.cX, esc.cY)), esc.zy)
         out == RLess(Num(4), RAdd(RMul(xtemp, xtemp), RMul(newY, newY)))
     IN esc' = [esc EXCEPT !.cX = xtemp, !.cY = newY,
                           !.passes = @ + 1,
                           !.broke = out,
                           !.pc = IF out THEN "exit" ELSE "loop",
                           !.iteration = @ + 1]
  /\ UNCHANGED <<navVars, selVars, uiVars, drawVars, pointer, last, shade,
                 gesture>>

\* drawMandelbrot, lines 132-139: one pass of the while loop
EscapeStep ==
  /\ esc.pc = "loop"
  /\ esc.iteration < esc.maxIter
  /\ LET xtemp == RAdd(RSub(RMul(esc.cX, esc.cX), RMul(esc.cY, esc.cY)), esc.zx)
         newY == RAdd(RMul(Num(2), RMul(esc.cX, esc.cY)), esc.zy)
         out == RLess(Num(4), RAdd(RMul(xtemp, xtemp), RMul(newY, newY)))
     IN esc' = [esc EXCEPT !.cX = xtemp, !.cY = newY,
                           !.passes = @ + 1,
                           !.broke = out,
                           !.pc = IF out THEN "exit" ELSE "loop",
                           !.iteration = IF out THEN @ ELSE @ + 1]
  /\ UNCHANGED <<navVars, selVars, uiVars, drawVars, pointer, last, shade,
                 gesture>>

\* drawMandelbrot, lines 132 and 141: the loop condition fails, or the loop
\* was left by the break; the pixel gets its colour
EscapePaint ==
  /\ \/ esc.pc = "exit"
     \/ esc.pc = "loop" /\ ~(esc.iteration < esc.maxIter)
  /\ esc' = [esc EXCEPT !.pc = "done",
                        !.color = Some(IF esc.iteration = esc.maxIter
                                       THEN Black
                                       ELSE ColorPalette(Norm(esc.iteration,
                                                              esc.maxIter)))]
  /\ UNCHANGED <<navVars, selVars, uiVars, drawVars, pointer, last, shade,
                 gesture>>

\* a render of the default view with any registered palette, under the
\* initial iteration budget or any small one
InitEscape ==
  /\ centerX = Num(0)
  /\ centerY = Num(0)
  /\ zoom = DefaultZoom
  /\ maxIterations \in (1..MaxIterBound) \cup {DefaultMaxIterations}
  /\ zoomHistory = <<>>
  /\ isMiniMapVisible = FALSE
  /\ currentPalette \in PaletteNames
  /\ isSelectingArea = FALSE
  /\ selectionStart = None
  /\ selectionEnd = None
  /\ canvas = [image |-> DrawMandelbrot(CanvasWidth, CanvasHeight, FALSE),
               rect |-> None]
  /\ miniMap = DrawMandelbrot(MiniMapSize, MiniMapSize, TRUE)
  /\ effectDeps = Deps
  /\ pointer = "idle"
  /\ last = Ran("mount")
  /\ esc = EscIdle
  /\ shade = NoShade
  /\ gesture = NoGesture

NextEscape ==
  \/ \E p \in SamplePixels : EscapeBegin(p)
  \/ EscapeStep
  \/ EscapePaint

SpecEscape == InitEscape /\ [][NextEscape]_vars

\* --------------------------------------------------------- the colour mapper
\* the ratios handed to colorPalette: line 141 passes iteration / maxIter, a
\* fraction of [0, 1); the end 1 is the ratio of a full count
Ratios ==
  { Norm(k, n) : k \in 0..MaxRatioDen, n \in 1..MaxRatioDen } \cap
  { r \in (0..MaxRatioDen) \X (1..MaxRatioDen) : r[1] <= r[2] }

\* colorPalette, lines 101-113: one call, with the two indices it reads the
\* palette at and the colour it returns
ColorFor(t) ==
  /\ shade' = [t |-> t, first |-> ColorIndex1(t), second |-> ColorIndex2(t),
               color |-> ColorPalette(t)]
  /\ UNCHANGED <<navVars, selVars, uiVars, drawVars, pointer, last, esc,
                 gesture>>

\* the mounted component with any registered palette selected
InitColor ==
  /\ centerX = Num(0)
  /\ centerY = Num(0)
  /\ zoom = DefaultZoom
  /\ maxIterations = DefaultMaxIterations
  /\ zoomHistory = <<>>
  /\ isMiniMapVisible = FALSE
  /\ currentPalette \in PaletteNames
  /\ isSelectingArea = FALSE
  /\ selectionStart = None
  /\ selectionEnd = None
  /\ canvas = [image |-> DrawMandelbrot(CanvasWidth, CanvasHeight, FALSE),
               rect |-> None]
  /\ miniMap = DrawMandelbrot(MiniMapSize, MiniMapSize, TRUE)
  /\ effectDeps = Deps
  /\ pointer = "idle"
  /\ last = Ran("mount")
  /\ esc = EscIdle
  /\ shade = NoShade
  /\ gesture = NoGesture

NextColor ==
  \E t \in Ratios : ColorFor(t)

SpecColor == InitColor /\ [][NextColor]_vars

\* ------------------------------------------------------------ the program
Next ==
  \/ RenderEffect
  \/ HandleResize
  \/ \E p \in ClickPoints : HandleZoom(p)
  \/ HandleUndoZoom
  \/ HandleResetView
  \/ ToggleMiniMap
  \/ \E value \in MenuPalettes : HandlePaletteChange(value)
  \/ ToggleSelectArea
  \/ \E p \in Points : HandleMouseDown(p)
  \/ \E p \in Points : HandleMouseMove(p)
  \/ HandleMouseUp

Spec == Init /\ [][Next]_vars

\* ================================================================ claims
NavOps == {"handleZoom", "handleUndoZoom", "handleResetView"}

\* the last handler was a click that zoomed in (not one ignored in selection mode)
ZoomedIn ==
  /\ last.op = "handleZoom"
  /\ Len(zoomHistory) = Len(last.pre.zoomHistory) + 1

\* this step is a click that zooms in
ZoomInStep ==
  /\ \E p \in ClickPoints : HandleZoom(p)
  /\ Len(zoomHistory') = Len(zoomHistory) + 1

ViewportOf(n) == <<n.centerX, n.centerY, n.zoom, n.maxIterations>>

\* C1: an undo that immediately follows a zoom-in restores the centre, the
\* scale and the iteration budget the view had before the zoom-in.
C1_ZoomUndoIdentity ==
  [][(ZoomedIn /\ HandleUndoZoom) => Viewport' = ViewportOf(last.pre)]_vars

\* C2: after handleResetView the viewport is (0, 0, 200, 100) and the history
\* stack is empty, whatever the navigation before it.
C2_ResetYieldsDefault ==
  last.op = "handleResetView" =>
    /\ Viewport = <<Num(0), Num(0), 200, 100>>
    /\ zoomHistory = <<>>

\* a reset has run from a view two or more zoom-ins deep
C2_Witness ==
  /\ last.op = "handleResetView"
  /\ Len(last.pre.zoomHistory) >= 2
  /\ last.pre.maxIterations # 100

\* floor(100 * log2(200 * 2^k)) = 100 * k + floor(100 * log2(200)) = 100 * k + 764
RECURSIVE Doublings(_)
Doublings(z) == IF z <= 200 THEN 0 ELSE 1 + Doublings(z \div 2)

BudgetOfScale(z) ==
  IF 100 * Doublings(z) + 764 < 1000 THEN 100 * Doublings(z) + 764 ELSE 1000

\* C3: every zoom-in leaves the budget at min(1000, floor(100*log2(scale)))
\* of the doubled scale, and no zoom-in lowers the budget.
C3_BudgetAfterZoom ==
  [][ZoomInStep =>
       /\ zoom' = 2 * zoom
       /\ maxIterations' = BudgetOfScale(zoom')
       /\ maxIterations' >= maxIterations]_vars

\* a zoom-in whose budget was clamped to 1000, after one that was not
C3_Witness ==
  /\ ZoomedIn
  /\ zoom = 1600
  /\ maxIterations = 1000
  /\ last.pre.maxIterations = 964

\* C4: no entry of the history stack has the centre and scale of the current
\* viewport.
C4_StackExcludesCurrent ==
  \A i \in 1..Len(zoomHistory) :
    zoomHistory[i] # [centerX |-> centerX, centerY |-> centerY, zoom |-> zoom]

\* after an undo, the stack still holds an entry with the current centre
C4_Witness ==
  /\ last.op = "handleUndoZoom"
  /\ Len(last.pre.zoomHistory) = Len(zoomHistory) + 1
  /\ \E i \in 1..Len(zoomHistory) :
       /\ zoomHistory[i].centerX = centerX
       /\ zoomHistory[i].centerY = centerY

\* C5: handleUndoZoom with an empty history changes neither the viewport
\* nor the stack, and raises no error.
C5_UndoOnEmptyIsNoOp ==
  (last.op = "handleUndoZoom" /\ last.pre.zoomHistory = <<>>) =>
    /\ NavState = last.pre
    /\ last.out.kind # "threw"

\* an undo has run on an empty history in a view that is not the default one
C5_Witness ==
  /\ last.op = "handleUndoZoom"
  /\ last.pre.zoomHistory = <<>>
  /\ last.pre.maxIterations = 764

\* the mouse was released over a selection of zero width or zero height
DegenerateRelease ==
  /\ last.op = "handleMouseUp"
  /\ pointer = "up"
  /\ isSelectingArea
  /\ selectionStart # None
  /\ selectionEnd # None
  /\ \/ selectionStart[1].x = selectionEnd[1].x
     \/ selectionStart[1].y = selectionEnd[1].y

\* C6: a release over a selection of zero width or height is abandoned
\* before anything is computed from it: no export scale (no division by the
\* zero width or height), no image, no download, no exception.
C6_DegenerateAborted ==
  DegenerateRelease => last.out = NoCapture

\* C7: whenever selection mode is off, both selection endpoints are null.
C7_EndpointsClearedWhenOff ==
  ~isSelectingArea => (selectionStart = None /\ selectionEnd = None)

\* C8: rendering, the palette menu, the two toggles and the three mouse
\* handlers of the capture gesture leave the viewport and the history as
\* they are.
C8_OnlyNavigationMoves ==
  [][(\/ RenderEffect
      \/ HandleResize
      \/ ToggleMiniMap
      \/ \E value \in MenuPalettes : HandlePaletteChange(value)
      \/ ToggleSelectArea
      \/ \E p \in Points : HandleMouseDown(p)
      \/ \E p \in Points : HandleMouseMove(p)
      \/ HandleMouseUp) => UNCHANGED navVars]_vars

\* a capture has been made from a zoomed view, which is still the view
C8_Witness ==
  /\ last.op = "handleMouseUp"
  /\ last.out.kind = "downloaded"
  /\ Len(zoomHistory) >= 1
  /\ centerX # Num(0)

\* the last handler captured the whole canvas
FullBufferCapture ==
  /\ last.op = "handleMouseUp"
  /\ last.out.kind = "downloaded"
  /\ {last.out.from, last.out.to} = {Pt(0, 0), Pt(CanvasWidth, CanvasHeight)}

\* C9: a capture of the whole canvas, dragged in either direction, has the
\* live viewport's scale and centre.
C9_FullBufferCapture ==
  FullBufferCapture =>
    /\ last.out.zoom = Num(last.pre.zoom)
    /\ last.out.centerX = last.pre.centerX
    /\ last.out.centerY = last.pre.centerY

\* the whole canvas captured by a drag from its bottom right corner, in a
\* view that was zoomed in off centre
C9_Witness ==
  /\ FullBufferCapture
  /\ last.out.from = Pt(CanvasWidth, CanvasHeight)
  /\ last.pre.zoom > 200
  /\ last.pre.centerX # Num(0)
  /\ last.pre.centerY # Num(0)

\* the loop never makes more passes than the budget; its result is within
\* 0..maxIter; it is maxIter exactly when no pass escaped; an escape on the
\* last permitted pass gives maxIter - 1
EscapeLoopContract ==
  /\ esc.passes <= esc.maxIter
  /\ esc.pc = "done" =>
       /\ 0 <= esc.iteration /\ esc.iteration <= esc.maxIter
       /\ (esc.iteration = esc.maxIter) <=> ~esc.broke
       /\ (esc.broke /\ esc.passes = esc.maxIter) =>
            esc.iteration = esc.maxIter - 1

BlackFirstPalettes == {"cool", "warm", "grayscale", "psychedelic"}

\* C10 as stated: the loop contract, and a pixel is black exactly when the
\* result is maxIter (so never when the orbit escaped on the last pass).
C10_BlackOnlyInterior ==
  /\ EscapeLoopContract
  /\ esc.pc = "done" =>
       (esc.color = Some(Black) <=> esc.iteration = esc.maxIter)

\* C10: the loop contract; a result of maxIter is painted black; an escaped
\* pixel is painted black only by a palette whose first entry is black.
C10_EscapeLoop ==
  /\ EscapeLoopContract
  /\ esc.pc = "done" =>
       /\ esc.iteration = esc.maxIter => esc.color = Some(Black)
       /\ (esc.color = Some(Black) /\ esc.iteration < esc.maxIter) =>
            currentPalette \in BlackFirstPalettes

\* an orbit that escaped on the fourth and last permitted pass and was
\* given a colour that is not black
C10_Witness ==
  /\ esc.pc = "done"
  /\ esc.broke
  /\ esc.maxIter = 4
  /\ esc.passes = 4
  /\ esc.iteration = 3
  /\ esc.color # Some(Black)

\* ---------------------------------------------------------------- C11
\* C11: a pixel whose plane point has real part above 2 gets the result 0
\* under every budget: its loop ends by the break of its first pass, with
\* the counter never raised, whatever the imaginary part is
C11_RightOfDiskEscapesAtOnce ==
  (esc.pc = "done" /\ RLess(Num(2), esc.zx))
    => (esc.iteration = 0 /\ esc.passes = 1 /\ esc.broke)

\* a finished loop of a pixel right of the disk and off the real axis, under
\* a budget that would have allowed more passes
C11_Witness ==
  /\ esc.pc = "done"
  /\ RLess(Num(2), esc.zx)
  /\ esc.zy # Num(0)
  /\ esc.maxIter >= 2
  /\ esc.iteration = 0

\* ---------------------------------------------------------------- C12
\* C12: under each of the eight palettes a call of the colour mapper with
\* ratio 0 returns the palette's first entry, a call with ratio 1 returns its
\* last entry, and the call with ratio 1 reads the palette at its last index
\* twice, never past the end
C12_PaletteEnds ==
  LET palette == ColorPalettes[currentPalette]
  IN shade # NoShade =>
       /\ shade.t = Num(0) => shade.color = palette[1]
       /\ shade.t = Num(1) =>
            /\ shade.color = palette[Len(palette)]
            /\ shade.first = Len(palette) - 1
            /\ shade.second = Len(palette) - 1

\* the mapper was called with ratio 1 under the longest palette
C12_Witness ==
  /\ shade # NoShade
  /\ shade.t = Num(1)
  /\ currentPalette = "original"
  /\ shade.color = <<106, 52, 3>>

\* ---------------------------------------------------------------- C13
\* the last handler was a zoom-in click at the middle of the 800x600 canvas,
\* made on the default viewport (0, 0, 200, 100)
AfterCentreClickOnDefault ==
  /\ ZoomedIn
  /\ ViewportOf(last.pre) = <<Num(0), Num(0), DefaultZoom, DefaultMaxIterations>>
  /\ last.at = Some(Pt(400, 300))

\* C13, as stated: after a zoom-in click at (400, 300) on the default
\* viewport the centre is still (0, 0), the scale is 400 and the budget is 863
C13_CentreClickBudget863 ==
  AfterCentreClickOnDefault => Viewport = <<Num(0), Num(0), 400, 863>>

\* C13, amended: after a zoom-in click at (400, 300) on the default viewport
\* the centre is still (0, 0), the scale is 400 and the budget is
\* floor(100*log2(400)) = 864
C13_CentreClickBudget864 ==
  AfterCentreClickOnDefault => Viewport = <<Num(0), Num(0), 400, 864>>

\* the scenario happened, with one entry pushed on the empty history
C13_Witness ==
  /\ AfterCentreClickOnDefault
  /\ zoom = 400
  /\ Len(zoomHistory) = 1

\* ---------------------------------------------------------------- C14
\* C14: once the render effect has drawn the mini-map, its marker is centred
\* on the mini-map position that the mini-map's own pixel-to-plane mapping
\* sends to the live centre (centerX, centerY)
C14_MarkerAtLiveCentre ==
  ~RenderPending =>
    /\ PlaneXAt(miniMap.marker[1].viewX, MiniMapSize, MiniMapSize, TRUE) = centerX
    /\ PlaneYAt(miniMap.marker[1].viewY, MiniMapSize, MiniMapSize, TRUE) = centerY

\* the horizontal half of C14, which the code keeps
MarkerColumnAtLiveCentre ==
  ~RenderPending =>
    PlaneXAt(miniMap.marker[1].viewX, MiniMapSize, MiniMapSize, TRUE) = centerX

\* what the code does vertically: the marker's row is mapped to twice centerY
MarkerRowAtTwiceCentre ==
  ~RenderPending =>
    PlaneYAt(miniMap.marker[1].viewY, MiniMapSize, MiniMapSize, TRUE)
      = RMul(Num(2), centerY)

\* ---------------------------------------------------------------- C15
\* C15: in every state the scale is positive and the iteration budget is at
\* least 1, whatever zoom-ins, undos and resets came before
C15_ScaleAndBudgetPositive ==
  /\ zoom > 0
  /\ maxIterations >= 1

\* an undo has brought the scale back to its smallest value, 200, where the
\* recomputed budget is floor(100*log2(200)) = 764
C15_Witness ==
  /\ last.op = "handleUndoZoom"
  /\ Len(last.pre.zoomHistory) = 1
  /\ zoom = DefaultZoom
  /\ maxIterations = 764

\* ---------------------------------------------------------------- C16
\* C16: a zoom-in click at canvas pixel p makes the centre the plane point
\* that the main render, under the viewport before the click and the same
\* canvas size, computes for pixel p
C16_ClickedPointBecomesCentre ==
  [][\A p \in ClickPoints :
       (HandleZoom(p) /\ ~isSelectingArea) =>
         /\ centerX' = PlaneX(p.x, CanvasWidth, CanvasHeight, FALSE)
         /\ centerY' = PlaneY(p.y, CanvasWidth, CanvasHeight, FALSE)]_vars

\* a zoom-in click at the canvas corner (0, 0), made on a view that an
\* earlier corner click had already moved off the origin and doubled
C16_Witness ==
  /\ ZoomedIn
  /\ last.at = Some(Pt(0, 0))
  /\ last.pre.zoom = 400
  /\ last.pre.centerX = Norm(-8, 3)
  /\ centerX = Norm(-4, 1)
  /\ centerY = Norm(-9, 4)

\* ---------------------------------------------------------------- C17
\* C17: the click that the browser delivers after the mouse-up of a capture
\* gesture leaves the viewport and the history stack as they were (the
\* mouse-down, the mouse-moves and the mouse-up of the gesture never change
\* them, so they are then as before the mouse-down)
C17_CaptureClickNeverZooms ==
  [][(/\ last.op = "handleMouseUp"
      /\ last.out.kind # "none"
      /\ \E p \in ClickPoints : HandleZoom(p))
       => UNCHANGED navVars]_vars

\* ---------------------------------------------------------------- C18
\* C18: whenever a mouse-up downloads a capture, selectionStart was set by a
\* mouse-down and selectionEnd by a mouse-move that both came after the most
\* recent of entering or leaving selection mode and the previous mouse-up
C18_CaptureUsesCurrentGesture ==
  [][(HandleMouseUp /\ last'.out.kind = "downloaded")
       => (gesture.start /\ gesture.end)]_vars

\* ---------------------------------------------------------------- C19
\* C19: in every state the scale is 200 * 2^n, n being the length of the
\* history stack, and the entry at height i of the stack (0 at the bottom)
\* has scale 200 * 2^i; so the stack's scales rise strictly and all lie
\* below the current scale
C19_ScaleIsDepth ==
  /\ zoom = DefaultZoom * Pow2(Len(zoomHistory))
  /\ \A i \in 1..Len(zoomHistory) :
       zoomHistory[i].zoom = DefaultZoom * Pow2(i - 1)

\* an undo from depth 3 has left two entries, of scales 200 and 400, under
\* the scale 800
C19_Witness ==
  /\ last.op = "handleUndoZoom"
  /\ Len(zoomHistory) = 2
  /\ zoom = 800
  /\ zoomHistory[2].zoom = 400

====
